---------------------------- MODULE Spec2Model ----------------------------
(***************************************************************************)
(* A model of cropscape-clip: the chunk orchestrator (src/src/main.py),    *)
(* the zonal summarizer (src/src/summarize_raster.py) and the area-of-     *)
(* interest clipping loop (src/clip_cropscape_to_area_of_interest.py).     *)
(*                                                                         *)
(* Strings are sequences of tokens: 'a[[INPUT_FID]]2' is                   *)
(* <<"a", "[[INPUT_FID]]", "2">>, and '+' on strings is \o.  A file name   *)
(* is the sequence of its parts between '__' separators, which is what     *)
(* item.split('__') computes.                                              *)
(***************************************************************************)
EXTENDS Integers, Sequences, FiniteSets, Bags, TLC

\* ------------------------------------------------------------------ bounds
MaxParcels == 3
MaxChunkSize == 3
MaxRuns == 2
MaxLost == 1

\* ----------------------------------------------------------------- helpers
Range(s) == {s[k] : k \in DOMAIN s}

Min(a, b) == IF a < b THEN a ELSE b

SeqsUpTo(S, n) == UNION {[1..k -> S] : k \in 0..n}

RECURSIVE SeqSum(_)
SeqSum(s) == IF s = <<>> THEN 0 ELSE Head(s) + SeqSum(Tail(s))

RECURSIVE Flatten(_)
Flatten(ss) == IF ss = <<>> THEN <<>> ELSE Head(ss) \o Flatten(Tail(ss))

\* the number of k in DOMAIN s with s[k] = x
Occurrences(s, x) == Cardinality({k \in DOMAIN s : s[k] = x})

BagOfSeq(s) == [x \in Range(s) |-> Occurrences(s, x)]

Orderings(S) == {p \in [1..Cardinality(S) -> S] : Range(p) = S}

\* ------------------------------------------------- identifier sanitization
\* A null cell of the id column (not a string).
NullId == <<"<null>">>

\* str(k) for the small positive integers FIDs take here.
Str(k) == <<"0", "1", "2", "3", "4", "5", "6", "7", "8", "9">>[k + 1]

\* gdf[id_key].astype(str): pandas before 3.0 turns a null of an object column
\* into the string 'None'; with the str dtype of pandas 3 the null stays null.
\* keeps selects the build.
AsTypeStr(v, keeps) == IF v = NullId /\ ~keeps THEN <<"None">> ELSE v

\* read_file(..., fid_as_index=True); astype(str); INPUT_FID = index + 1;
\* reset_index.  The FID of the row at position k is k.
ReadGdf(col, keeps) ==
  [k \in DOMAIN col |-> [id |-> AsTypeStr(col[k], keeps), INPUT_FID |-> k + 1]]

\* gdf.loc[null_mask, id_key] = 'NULL[[INPUT_FID]]' + INPUT_FID.astype(str)
RewriteNulls(g) ==
  [k \in DOMAIN g |->
     IF g[k].id = NullId
       THEN [g[k] EXCEPT !.id = <<"NULL", "[[INPUT_FID]]">> \o <<Str(g[k].INPUT_FID)>>]
       ELSE g[k]]

\* gdf.duplicated(id_key, keep=False)
Duplicated(g, k) == \E j \in DOMAIN g : j # k /\ g[j].id = g[k].id

\* gdf.loc[non_unique_mask, id_key] = id + '[[INPUT_FID]]' + INPUT_FID.astype(str)
RewriteDuplicates(g) ==
  [k \in DOMAIN g |->
     IF Duplicated(g, k)
       THEN [g[k] EXCEPT !.id = g[k].id \o <<"[[INPUT_FID]]", Str(g[k].INPUT_FID)>>]
       ELSE g[k]]

Sanitize(col, keeps) == RewriteDuplicates(RewriteNulls(ReadGdf(col, keeps)))

\* ------------------------------------------------------------ file names
\* --layer_name, as one part of a file name
LayerName == <<"parcels">>

\* f'layer_{i + 1}', for the 0-based position i of a chunk
LayerChunk(i) == <<"layer_", Str(i + 1)>>

\* f'{layer_name}__chunked.gpkg', in ./working/{gdb_name}
ChunkedGpkgFile == <<LayerName, <<"chunked.gpkg">>>>

\* f'{layer_name}__{chunk_name}.shp', in ./working/{gdb_name}
ShpFile(chunk_name) == <<LayerName, chunk_name \o <<".shp">>>>

\* f'{layer_name}__{chunk_name}__output.gpkg', in {summary_output_folder_path}/chunked
ChunkPath(chunk_name) == <<LayerName, chunk_name, <<"output.gpkg">>>>

\* item.endswith('__output.gpkg')
EndsWithOutputGpkg(item) == Len(item) >= 2 /\ item[Len(item)] = <<"output.gpkg">>

\* ---------------------------------------------------------------- layers
\* A layer of a chunk output file: readable with its rows, absent, or unreadable.
OkLayer(rows) == [st |-> "ok", rows |-> rows]
AbsentLayer == [st |-> "absent", rows |-> <<>>]
CorruptLayer == [st |-> "corrupt", rows |-> <<>>]

NoChunkNames == [bound |-> FALSE, names |-> <<>>]
BoundChunkNames(names) == [bound |-> TRUE, names |-> names]

EmptyWorking == [exists |-> FALSE, gpkg |-> <<>>, shp |-> <<>>, rasters |-> FALSE]
NoOutputGpkg == [exists |-> FALSE, counts |-> <<>>, trajectories |-> <<>>]

VARIABLES
  args,                \* the parsed command line of the current run
  gdb,                 \* the id column of the feature layer in the geodatabase
  keepsNull,           \* whether astype(str) of this build keeps nulls
  pc,                  \* position of the run of main
  gdf,                 \* the data frame read from the geodatabase
  ci,                  \* i of the chunking loop
  chunks,              \* the list of chunks
  chunk_names,         \* the chunk name list, possibly unbound
  idx,                 \* index of the per-chunk loops
  working,             \* ./working: chunked GeoPackage, shapefiles, rasters
  outdir,              \* {summary_output_folder_path}/chunked: chunk output files
  output_gpkg,         \* the merged output GeoPackage
  merged_counts_gdf,
  merged_trajectories_gdf,
  log,                 \* what the run printed
  exit_code,           \* -1 while running, then the exit status
  runs,                \* runs of main started so far
  lost,                \* chunk outputs lost or damaged so far
  calls,               \* the calls of apply_cdl_data_to_parcels of the current run
  interrupted          \* whether the operator has interrupted the current run

mainVars == <<args, gdb, keepsNull, pc, gdf, ci, chunks, chunk_names, idx, working,
              outdir, output_gpkg, merged_counts_gdf, merged_trajectories_gdf, log,
              exit_code, runs, lost, calls, interrupted>>

\* ---------------------------------------------------------- chunking
ILocInclusiveEnd(g, i, size) == SubSeq(g, i + 1, Min(i + size + 1, Len(g)))

\* gdf.iloc[i:i + chunk_size]
ILoc(g, i, size) == SubSeq(g, i + 1, Min(i + size, Len(g)))

\* chunk.to_file(chunked_gpkg_path, layer=layer_chunk, driver='GPKG', append=True)
ToFileAppend(gpkg, layer, rows) ==
  IF layer \in DOMAIN gpkg
    THEN [gpkg EXCEPT ![layer] = @ \o rows]
    ELSE [l \in DOMAIN gpkg \cup {layer} |-> IF l = layer THEN rows ELSE gpkg[l]]

RECURSIVE SaveChunkLayers(_, _, _)
\* for i, chunk in enumerate(chunks): chunk.to_file(..., layer=f'layer_{i + 1}', append=True)
SaveChunkLayers(gpkg, cs, i) ==
  IF i >= Len(cs) THEN gpkg
  ELSE SaveChunkLayers(ToFileAppend(gpkg, LayerChunk(i), cs[i + 1]), cs, i + 1)

\* the shapefile of every chunk name, read back from its GeoPackage layer
Shapefiles(gpkg, names, shp) ==
  [f \in DOMAIN shp \cup {ShpFile(n) : n \in Range(names)} |->
     IF \E n \in Range(names) : f = ShpFile(n)
       THEN gpkg[CHOOSE n \in Range(names) : f = ShpFile(n)]
       ELSE shp[f]]

\* os.listdir(f'./working/{gdb_name}')
WorkingListing(w) ==
  (IF DOMAIN w.gpkg = {} THEN {} ELSE {ChunkedGpkgFile}) \cup DOMAIN w.shp

\* ------------------------------------------- apply_cdl_data_to_parcels
\* The counts-only pass writes the chunk's counts layer, one row per parcel of
\* the chunk's shapefile, into the chunk's output file.
WriteCountsLayer(out, path, rows) ==
  [f \in DOMAIN out \cup {path} |->
     IF f = path
       THEN [counts |-> OkLayer(rows),
             trajectories |-> IF path \in DOMAIN out THEN out[path].trajectories
                              ELSE AbsentLayer]
       ELSE out[f]]

\* The trajectories-only pass writes the chunk's trajectories layer.
WriteTrajectoriesLayer(out, path, rows) ==
  [f \in DOMAIN out \cup {path} |->
     IF f = path
       THEN [counts |-> IF path \in DOMAIN out THEN out[path].counts ELSE AbsentLayer,
             trajectories |-> OkLayer(rows)]
       ELSE out[f]]

\* ------------------------------------------------------------------ merge
RECURSIVE ReconstructChunkNames(_, _)
\* for item in os.listdir(...): chunk_names = []; if item.endswith('__output.gpkg'):
\*   chunk_names.append(item.split('__')[1].replace('__output.gpkg', '')); break
\* items is the listing in the order os.listdir gave it; names is the binding of
\* chunk_names so far (unbound before the loop in a run that skipped processing).
ReconstructChunkNames(items, names) ==
  IF items = <<>> THEN names
  ELSE IF EndsWithOutputGpkg(Head(items))
         THEN BoundChunkNames(<<Head(items)[2]>>)
         ELSE ReconstructChunkNames(Tail(items), BoundChunkNames(<<>>))

ConcatDropEarlier(merged, rows) == rows

\* pandas.concat([merged, chunk_gdf], ignore_index=True)
Concat(merged, rows) == merged \o rows

\* the first try block of the merge loop, on the merged counts table
MergeCounts(merged, out, path) ==
  IF path \in DOMAIN out /\ out[path].counts.st = "ok"
    THEN Concat(merged, out[path].counts.rows)
    ELSE merged

\* the second try block of the merge loop, on the merged trajectories table
MergeTrajectories(merged, out, path) ==
  IF path \in DOMAIN out /\ out[path].trajectories.st = "ok"
    THEN Concat(merged, out[path].trajectories.rows)
    ELSE merged

\* what the two except blocks of the merge loop print for one chunk
MergeLog(out, path) ==
  IF path \in DOMAIN out
    THEN (IF out[path].counts.st = "ok" THEN <<>>
          ELSE <<[msg |-> "Error reading", path |-> path, layer |-> "Parcels with CDL counts"]>>)
         \o
         (IF out[path].trajectories.st = "ok" THEN <<>>
          ELSE <<[msg |-> "Error reading", path |-> path,
                  layer |-> "Parcels with CDL pixel trajectories"]>>)
    ELSE <<>>


\* ------------------------------------------------------------ reclass_spec
\* list(range(a, b))
PyRange(a, b) == [i \in 1..(b - a) |-> a + i - 1]

\* the remap table of main: new code -> name and original codes
reclass_spec ==
  254 :> [name |-> "background", original |-> <<0>>] @@
  1 :> [name |-> "crops", original |-> PyRange(1, 61) \o PyRange(66, 81) \o PyRange(195, 256)] @@
  2 :> [name |-> "idle", original |-> <<61>>] @@
  3 :> [name |-> "grassland", original |-> <<62, 176>>] @@
  4 :> [name |-> "forest", original |-> <<63, 141, 142, 143>>] @@
  5 :> [name |-> "shrubland", original |-> <<64, 152>>] @@
  6 :> [name |-> "barren", original |-> <<65, 131>>] @@
  10 :> [name |-> "developed", original |-> <<82>>] @@
  11 :> [name |-> "developed_open", original |-> <<121>>] @@
  12 :> [name |-> "developed_low", original |-> <<122>>] @@
  13 :> [name |-> "developed_med", original |-> <<123>>] @@
  14 :> [name |-> "developed_high", original |-> <<124>>] @@
  20 :> [name |-> "water", original |-> <<83, 111, 112>>] @@
  21 :> [name |-> "wetlands", original |-> <<87, 190>>] @@
  22 :> [name |-> "woody_wetlands", original |-> <<190>>] @@
  28 :> [name |-> "aquaculture", original |-> <<92>>] @@
  255 :> [name |-> "missing", original |-> <<>>]

\* the codes a pixel of a raw raster can hold
RawCodes == Range(PyRange(0, 256))

\* the new codes whose original list holds a raw code
NewCodesOf(code) == {n \in DOMAIN reclass_spec : code \in Range(reclass_spec[n].original)}

\* the new code of the entry with a name
CodeNamed(name) == CHOOSE n \in DOMAIN reclass_spec : reclass_spec[n].name = name

VARIABLES
  raw_code,            \* the code of a pixel of a raw raster
  new_code,            \* the code the reclassifier gave it
  rpc                  \* position of the reclassifier

rclVars == <<raw_code, new_code, rpc>>


\* ------------------------------------------------ the zonal summarizer
NumWorkers == 2
MaxFeatures == 2
MaxSharedFeatures == 2
MaxYears == 2

Workers == 1..NumWorkers

\* the pixels of a raster, as <<column, row>>
Cells == (1..2) \X (1..2)

\* the class codes of a pixel; 0 is the nodata value clip_raster fills with
Codes == {1, 2}
Nodata == 0

Rasters == {r \in [Cells -> Codes] : r[<<1, 1>>] = 1 /\ r[<<2, 2>>] = 2}

\* The pixels a feature's polygon covers: none (the polygon lies outside the
\* raster extent), one pixel, a row, a triangle, the whole raster.
Footprints ==
  {{}, {<<1, 1>>}, {<<1, 1>>, <<2, 1>>}, {<<1, 1>>, <<2, 1>>, <<2, 2>>}, Cells}

\* row[id_key] of the feature at position k of a layer
FeatureId(k) == <<"p", Str(k)>>

\* the pixel window covering the bounding box of a footprint
Window(fp) ==
  {c \in Cells : /\ \E a \in fp : a[1] <= c[1]
                 /\ \E a \in fp : a[1] >= c[1]
                 /\ \E a \in fp : a[2] <= c[2]
                 /\ \E a \in fp : a[2] >= c[2]}

\* clip_raster: the window of the polygon's bounding box, the pixels outside
\* the polygon filled with nodata; it raises when the polygon does not
\* intersect the raster.
ClipRaises(fp) == fp = {}
ClipRaster(raster, fp) == [c \in Window(fp) |-> IF c \in fp THEN raster[c] ELSE Nodata]

\* dict(zip(*numpy.unique(band, return_counts=True)))
UniqueCounts(band) ==
  [v \in {band[c] : c \in DOMAIN band} |-> Cardinality({c \in DOMAIN band : band[c] = v})]

RECURSIVE SumOver(_, _)
\* int(numpy.sum(clipped_pixel_counts))
SumOver(counts, keys) ==
  IF keys = {} THEN 0
  ELSE LET v == CHOOSE x \in keys : TRUE
       IN counts[v] + SumOver(counts, keys \ {v})

\* the feature_metadata of one feature of the breakdown
FeatureMetadata(id, image) ==
  [id |-> id,
   total_pixels |-> SumOver(UniqueCounts(image), DOMAIN UniqueCounts(image)),
   pixel_counts |-> UniqueCounts(image)]

\* the feature_metadata summarize_raster returns
RasterMetadata(band, breakdown) ==
  [total_pixels |-> SumOver(UniqueCounts(band), DOMAIN UniqueCounts(band)),
   pixel_counts |-> UniqueCounts(band),
   breakdown |-> breakdown]

NoMetadata == [total_pixels |-> 0, pixel_counts |-> <<>>, breakdown |-> <<>>]

\* folders and files, as paths
TempFolder == <<"./temp">>
GivenFolder == <<"./clipped_parcels_rasters">>
OutputRoot(t) == IF t.output_folder THEN GivenFolder ELSE TempFolder
FeatureFolder(t, k) == OutputRoot(t) \o FeatureId(k)
JsonFile(t, k) == FeatureFolder(t, k) \o <<".json">>
TiffFile(t, k) == FeatureFolder(t, k) \o <<".tiff">>

IsPrefix(a, b) == Len(a) <= Len(b) /\ SubSeq(b, 1, Len(a)) = a

\* shutil.rmtree(folder), the folder existing
RmTree(files, folder) == {f \in files : ~IsPrefix(folder, f)}

\* os.makedirs(folder, exist_ok=True) for the folder of a feature
MakeDirs(files, t, k) == files \cup {OutputRoot(t), FeatureFolder(t, k)}

\* what one worker runs: a call of summarize_raster, the clipping script, nothing
SummarizeTask(raster, state, has_layer, layer, folder, summary, lock) ==
  [prog |-> "summarize", raster |-> raster, raster_state |-> state,
   has_layer |-> has_layer, layer |-> layer, output_folder |-> folder,
   summary |-> summary, lock |-> lock, years |-> <<>>]

ClipScriptTask(years) ==
  [prog |-> "clip", raster |-> CHOOSE r \in Rasters : TRUE, raster_state |-> "ok",
   has_layer |-> FALSE, layer |-> <<>>, output_folder |-> FALSE, summary |-> "none",
   lock |-> FALSE, years |-> years]

NoTask == [ClipScriptTask(<<>>) EXCEPT !.prog = "none"]

VARIABLES
  task,                \* what each worker runs
  spc,                 \* each worker's position
  open_rasters,        \* the rasters each worker holds open
  fi,                  \* each worker's loop index (feature, or yearly raster)
  breakdowns,          \* each worker's breakdowns list
  folder_bound,        \* whether _output_folder_path is bound
  err,                 \* the exception that ended the worker, or "none"
  returned,            \* what summarize_raster returned
  seen,                \* the value each worker read from shared_counter
  files,               \* the folders and files on disk
  files_start,         \* those on disk when the workers started
  shared_counter,      \* the shared progress counter
  counter_start,       \* its value when the workers started
  lock                 \* the worker holding the lock, or 0

sumVars == <<task, spc, open_rasters, fi, breakdowns, folder_bound, err, returned, seen,
             files, files_start, shared_counter, counter_start, lock>>

vars == <<mainVars, sumVars, rclVars>>

\* ----------------------------------------------------------- main: a run
\* a line the run prints that names no chunk
Line(msg, what) == [msg |-> msg, path |-> <<>>, layer |-> what]

\* lines 289-293, except Exception: print the error and the elapsed time, and
\* sys.exit(message), which prints the message and exits with status 1
Fatal(what) ==
  /\ pc' = "failed"
  /\ exit_code' = 1
  /\ log' = log \o <<Line("ERROR", what), Line("Total elapsed time", ""),
                     Line("There was an error. Please check the log file", "")>>

\* lines 96-121: remove the working and output paths unless told not to
Begin ==
  /\ pc = "start"
  /\ IF args.skip_remove_io
       THEN UNCHANGED <<working, outdir, output_gpkg>>
       ELSE /\ working' = EmptyWorking
            /\ outdir' = <<>>
            /\ output_gpkg' = NoOutputGpkg
  /\ pc' = IF ~args.skip_processing THEN "read"
           ELSE IF ~args.skip_merge THEN "reconstruct" ELSE "finish"
  /\ UNCHANGED <<args, gdb, keepsNull, gdf, ci, chunks, chunk_names, idx,
                 merged_counts_gdf, merged_trajectories_gdf, log, exit_code, runs, lost>>
  /\ UNCHANGED <<calls, interrupted>>
  /\ UNCHANGED <<sumVars, rclVars>>

\* lines 123-151: read the feature layer and sanitize its identifiers
ReadFeatureLayer ==
  /\ pc = "read"
  /\ gdf' = Sanitize(gdb, keepsNull)
  /\ chunks' = <<>>
  /\ ci' = 0
  /\ pc' = "chunk"
  /\ UNCHANGED <<args, gdb, keepsNull, chunk_names, idx, working, outdir, output_gpkg,
                 merged_counts_gdf, merged_trajectories_gdf, log, exit_code, runs, lost>>
  /\ UNCHANGED <<calls, interrupted>>
  /\ UNCHANGED <<sumVars, rclVars>>

\* lines 152-154: one iteration of for i in range(0, len(gdf), chunk_size)
ChunkStep ==
  /\ pc = "chunk"
  /\ ci < Len(gdf)
  /\ chunks' = Append(chunks, ILoc(gdf, ci, args.chunk_size))
  /\ ci' = ci + args.chunk_size
  /\ UNCHANGED <<args, gdb, keepsNull, pc, gdf, chunk_names, idx, working, outdir,
                 output_gpkg, merged_counts_gdf, merged_trajectories_gdf, log, exit_code,
                 runs, lost>>
  /\ UNCHANGED <<calls, interrupted>>
  /\ UNCHANGED <<sumVars, rclVars>>

\* lines 157-169: save each chunk as a layer of the chunked GeoPackage
SaveChunks ==
  /\ pc = "chunk"
  /\ ci >= Len(gdf)
  /\ working' = [working EXCEPT !.exists = TRUE,
                                !.gpkg = SaveChunkLayers(working.gpkg, chunks, 0)]
  /\ pc' = "list"
  /\ UNCHANGED <<args, gdb, keepsNull, gdf, ci, chunks, chunk_names, idx, outdir,
                 output_gpkg, merged_counts_gdf, merged_trajectories_gdf, log, exit_code,
                 runs, lost>>
  /\ UNCHANGED <<calls, interrupted>>
  /\ UNCHANGED <<sumVars, rclVars>>

\* lines 182-192: chunk_names = fiona.listlayers(gpkg_path), in the order the
\* GeoPackage lists its layers, and a shapefile of every chunk; listlayers raises
\* when no chunk was saved, the GeoPackage then not existing.
ListLayers ==
  /\ pc = "list"
  /\ IF DOMAIN working.gpkg = {}
       THEN /\ Fatal("listlayers")
            /\ UNCHANGED <<chunk_names, working, idx>>
       ELSE /\ \E names \in Orderings(DOMAIN working.gpkg) :
                 /\ chunk_names' = BoundChunkNames(names)
                 /\ working' = [working EXCEPT
                                  !.shp = Shapefiles(working.gpkg, names, working.shp)]
            /\ idx' = 1
            /\ pc' = "counts"
            /\ UNCHANGED <<log, exit_code>>
  /\ UNCHANGED <<args, gdb, keepsNull, gdf, ci, chunks, outdir, output_gpkg,
                 merged_counts_gdf, merged_trajectories_gdf, runs, lost>>
  /\ UNCHANGED <<calls, interrupted>>
  /\ UNCHANGED <<sumVars, rclVars>>

SkipRasterPrepNever(index) == FALSE

\* skip_raster_clipping_and_reclassifying=index > 0, of the counts-only pass
SkipRasterPrep(index) == index > 0

\* the keyword arguments of a call of apply_cdl_data_to_parcels that differ
\* between the calls
CallOf(chunk_name, skip_prep, skip_traj, skip_summary) ==
  [chunk_name |-> chunk_name,
   skip_raster_clipping_and_reclassifying |-> skip_prep,
   skip_trajectories |-> skip_traj,
   skip_summary_data |-> skip_summary]

\* lines 195-215: the counts-only pass of one chunk
CountsPass ==
  /\ pc = "counts"
  /\ LET chunk_name == chunk_names.names[idx]
         skip_raster_clipping_and_reclassifying == SkipRasterPrep(idx - 1)
     IN IF skip_raster_clipping_and_reclassifying /\ ~working.rasters
          THEN /\ Fatal("rasters")
               /\ UNCHANGED <<working, outdir, idx, calls>>
          ELSE /\ calls' = Append(calls, CallOf(chunk_name,
                                 skip_raster_clipping_and_reclassifying, TRUE, FALSE))
               /\ working' = [working EXCEPT !.rasters = TRUE]
               /\ outdir' = WriteCountsLayer(outdir, ChunkPath(chunk_name),
                                             working.shp[ShpFile(chunk_name)])
               /\ IF idx < Len(chunk_names.names)
                    THEN idx' = idx + 1 /\ pc' = "counts"
                    ELSE idx' = 1 /\ pc' = "trajectories"
               /\ UNCHANGED <<log, exit_code>>
  /\ UNCHANGED <<args, gdb, keepsNull, gdf, ci, chunks, chunk_names, output_gpkg,
                 merged_counts_gdf, merged_trajectories_gdf, runs, lost>>
  /\ UNCHANGED interrupted
  /\ UNCHANGED <<sumVars, rclVars>>

\* lines 217-236: the trajectories-only pass of one chunk
TrajectoriesPass ==
  /\ pc = "trajectories"
  /\ LET chunk_name == chunk_names.names[idx]
     IN IF ~working.rasters
          THEN /\ Fatal("rasters")
               /\ UNCHANGED <<outdir, idx, calls>>
          ELSE /\ calls' = Append(calls, CallOf(chunk_name, TRUE, FALSE, TRUE))
               /\ outdir' = WriteTrajectoriesLayer(outdir, ChunkPath(chunk_name),
                                                   working.shp[ShpFile(chunk_name)])
               /\ IF idx < Len(chunk_names.names)
                    THEN idx' = idx + 1 /\ pc' = "trajectories"
                    ELSE idx' = 1 /\ pc' = IF args.skip_merge THEN "finish" ELSE "merge"
               /\ UNCHANGED <<log, exit_code>>
  /\ UNCHANGED <<args, gdb, keepsNull, gdf, ci, chunks, chunk_names, working, output_gpkg,
                 merged_counts_gdf, merged_trajectories_gdf, runs, lost>>
  /\ UNCHANGED interrupted
  /\ UNCHANGED <<sumVars, rclVars>>

\* lines 244-251: rebuild chunk_names from the listing of ./working/{gdb_name};
\* os.listdir raises when the folder does not exist
Reconstruct ==
  /\ pc = "reconstruct"
  /\ IF ~working.exists
       THEN /\ Fatal("listdir")
            /\ UNCHANGED chunk_names
       ELSE /\ \E items \in Orderings(WorkingListing(working)) :
                 chunk_names' = ReconstructChunkNames(items, chunk_names)
            /\ pc' = "merge"
            /\ UNCHANGED <<log, exit_code>>
  /\ UNCHANGED <<args, gdb, keepsNull, gdf, ci, chunks, idx, working, outdir, output_gpkg,
                 merged_counts_gdf, merged_trajectories_gdf, runs, lost>>
  /\ UNCHANGED <<calls, interrupted>>
  /\ UNCHANGED <<sumVars, rclVars>>

\* lines 254-256: empty merged tables; len(chunk_names) raises NameError when
\* chunk_names is unbound
MergeBegin ==
  /\ pc = "merge"
  /\ IF ~chunk_names.bound
       THEN /\ Fatal("chunk_names")
            /\ UNCHANGED idx
       ELSE /\ idx' = 1
            /\ pc' = "mergeloop"
            /\ UNCHANGED <<log, exit_code>>
  /\ merged_counts_gdf' = <<>>
  /\ merged_trajectories_gdf' = <<>>
  /\ UNCHANGED <<args, gdb, keepsNull, gdf, ci, chunks, chunk_names, working, outdir,
                 output_gpkg, runs, lost>>
  /\ UNCHANGED <<calls, interrupted>>
  /\ UNCHANGED <<sumVars, rclVars>>

\* lines 257-275: one iteration of the merge loop
MergeStep ==
  /\ pc = "mergeloop"
  /\ idx <= Len(chunk_names.names)
  /\ LET chunk_path == ChunkPath(chunk_names.names[idx])
     IN /\ merged_counts_gdf' = MergeCounts(merged_counts_gdf, outdir, chunk_path)
        /\ merged_trajectories_gdf' =
             MergeTrajectories(merged_trajectories_gdf, outdir, chunk_path)
        /\ log' = log \o MergeLog(outdir, chunk_path)
  /\ idx' = idx + 1
  /\ UNCHANGED <<args, gdb, keepsNull, pc, gdf, ci, chunks, chunk_names, working, outdir,
                 output_gpkg, exit_code, runs, lost>>
  /\ UNCHANGED <<calls, interrupted>>
  /\ UNCHANGED <<sumVars, rclVars>>

\* lines 279-283: save the merged tables as the layers of the output GeoPackage
SaveMerged ==
  /\ pc = "mergeloop"
  /\ idx > Len(chunk_names.names)
  /\ output_gpkg' = [exists |-> TRUE, counts |-> merged_counts_gdf,
                     trajectories |-> merged_trajectories_gdf]
  /\ pc' = "finish"
  /\ UNCHANGED <<args, gdb, keepsNull, gdf, ci, chunks, chunk_names, idx, working, outdir,
                 merged_counts_gdf, merged_trajectories_gdf, log, exit_code, runs, lost>>
  /\ UNCHANGED <<calls, interrupted>>
  /\ UNCHANGED <<sumVars, rclVars>>

\* lines 285-287: DONE
Finish ==
  /\ pc = "finish"
  /\ pc' = "done"
  /\ exit_code' = 0
  /\ log' = log \o <<Line("DONE", ""), Line("Total elapsed time", ""),
                     Line("Output saved to", "")>>
  /\ UNCHANGED <<args, gdb, keepsNull, gdf, ci, chunks, chunk_names, idx, working, outdir,
                 output_gpkg, merged_counts_gdf, merged_trajectories_gdf, runs, lost>>
  /\ UNCHANGED <<calls, interrupted>>
  /\ UNCHANGED <<sumVars, rclVars>>

\* A new run of main on the same geodatabase and the files the earlier runs left:
\* a new process, so nothing is bound but the arguments.
StartRun ==
  /\ pc \in {"done", "failed"}
  /\ runs < MaxRuns
  /\ \E rio, proc, mrg \in BOOLEAN :
       args' = [args EXCEPT !.skip_remove_io = rio, !.skip_processing = proc,
                            !.skip_merge = mrg]
  /\ runs' = runs + 1
  /\ pc' = "start"
  /\ exit_code' = -1
  /\ gdf' = <<>>
  /\ ci' = 0
  /\ chunks' = <<>>
  /\ chunk_names' = NoChunkNames
  /\ idx' = 1
  /\ merged_counts_gdf' = <<>>
  /\ merged_trajectories_gdf' = <<>>
  /\ log' = <<>>
  /\ calls' = <<>>
  /\ interrupted' = FALSE
  /\ UNCHANGED <<gdb, keepsNull, working, outdir, output_gpkg, lost>>
  /\ UNCHANGED <<sumVars, rclVars>>

\* The environment, between processing and merging: a chunk output file is
\* deleted, or one of its layers is dropped or made unreadable.  These are the
\* conditions lines 260-275 test for.
LoseChunkOutput ==
  /\ pc = "merge"
  /\ lost < MaxLost
  /\ \E path \in DOMAIN outdir :
       \/ outdir' = [f \in DOMAIN outdir \ {path} |-> outdir[f]]
       \/ \E layer \in {AbsentLayer, CorruptLayer} :
            \/ outdir' = [outdir EXCEPT ![path].counts = layer]
            \/ outdir' = [outdir EXCEPT ![path].trajectories = layer]
  /\ lost' = lost + 1
  /\ UNCHANGED <<args, gdb, keepsNull, pc, gdf, ci, chunks, chunk_names, idx, working,
                 output_gpkg, merged_counts_gdf, merged_trajectories_gdf, log, exit_code,
                 runs>>
  /\ UNCHANGED <<calls, interrupted>>
  /\ UNCHANGED <<sumVars, rclVars>>

\* whether the run of main is still inside its guarded block
Running == pc \notin {"done", "failed", "interrupted", "crashed"}

\* what an except block of the merge loop prints for a layer of a chunk
ErrorReading(path, layer) == [msg |-> "Error reading", path |-> path, layer |-> layer]

\* the lines of MergeLog about one layer
MergeLogOf(out, path, layer) ==
  SelectSeq(MergeLog(out, path), LAMBDA line : line.layer = layer)

\* The operator presses CTRL+C: KeyboardInterrupt is raised at the statement
\* the run is executing.  Lines 295-297 catch it, print the elapsed time and
\* let the run end with status 0.  Raised before line 101 has bound
\* start_time, the handler's second print raises NameError, which nothing
\* catches: the interpreter exits with status 1.  Raised inside one of the
\* two try blocks of the merge loop (lines 261-275), the bare except of that
\* block catches it, prints 'Error reading' and the loop goes on.
Interrupt ==
  /\ Running
  /\ ~interrupted
  /\ interrupted' = TRUE
  /\ \/ /\ pc' = "interrupted"
        /\ exit_code' = 0
        /\ log' = log \o <<Line("Program terminated by user via KeyboardInterrupt", ""),
                           Line("Total elapsed time", "")>>
        /\ UNCHANGED <<idx, merged_counts_gdf, merged_trajectories_gdf>>
     \/ /\ pc = "start"
        /\ pc' = "crashed"
        /\ exit_code' = 1
        /\ log' = log \o <<Line("Program terminated by user via KeyboardInterrupt", ""),
                           Line("NameError", "start_time")>>
        /\ UNCHANGED <<idx, merged_counts_gdf, merged_trajectories_gdf>>
     \/ /\ pc = "mergeloop"
        /\ idx <= Len(chunk_names.names)
        /\ LET chunk_path == ChunkPath(chunk_names.names[idx])
               counts == "Parcels with CDL counts"
               trajectories == "Parcels with CDL pixel trajectories"
           IN /\ chunk_path \in DOMAIN outdir
              /\ \/ /\ UNCHANGED merged_counts_gdf
                    /\ merged_trajectories_gdf' =
                         MergeTrajectories(merged_trajectories_gdf, outdir, chunk_path)
                    /\ log' = log \o <<ErrorReading(chunk_path, counts)>>
                                  \o MergeLogOf(outdir, chunk_path, trajectories)
                 \/ /\ merged_counts_gdf' = MergeCounts(merged_counts_gdf, outdir, chunk_path)
                    /\ UNCHANGED merged_trajectories_gdf
                    /\ log' = log \o MergeLogOf(outdir, chunk_path, counts)
                                  \o <<ErrorReading(chunk_path, trajectories)>>
        /\ idx' = idx + 1
        /\ UNCHANGED <<pc, exit_code>>
  /\ UNCHANGED <<args, gdb, keepsNull, gdf, ci, chunks, chunk_names, working, outdir,
                 output_gpkg, runs, lost, calls>>
  /\ UNCHANGED <<sumVars, rclVars>>

\* A statement of the guarded block outside the try blocks of the merge loop
\* raises an exception (a file cannot be read, written or removed): lines
\* 289-293 catch it.  start_time is bound by then: the statements before
\* line 101 do no input or output.
RaiseError ==
  /\ Running
  /\ pc = "mergeloop" => idx > Len(chunk_names.names)
  /\ Fatal("raised")
  /\ UNCHANGED <<args, gdb, keepsNull, gdf, ci, chunks, chunk_names, idx, working, outdir,
                 output_gpkg, merged_counts_gdf, merged_trajectories_gdf, runs, lost,
                 calls, interrupted>>
  /\ UNCHANGED <<sumVars, rclVars>>

ArgsOf(size, rio, proc, mrg) ==
  [chunk_size |-> size, skip_remove_io |-> rio, skip_processing |-> proc,
   skip_merge |-> mrg]

\* The first run, on a machine with no working or output files.
MainStart(col, keeps, a) ==
  /\ gdb = col
  /\ keepsNull = keeps
  /\ args = a
  /\ pc = "start"
  /\ gdf = <<>>
  /\ ci = 0
  /\ chunks = <<>>
  /\ chunk_names = NoChunkNames
  /\ idx = 1
  /\ working = EmptyWorking
  /\ outdir = <<>>
  /\ output_gpkg = NoOutputGpkg
  /\ merged_counts_gdf = <<>>
  /\ merged_trajectories_gdf = <<>>
  /\ log = <<>>
  /\ exit_code = -1
  /\ runs = 1
  /\ lost = 0
  /\ calls = <<>>
  /\ interrupted = FALSE

\* ------------------------------------------------- summarize_raster
\* an exception leaves the call: nothing below the raising line runs
Raise(w, e) ==
  /\ spc' = [spc EXCEPT ![w] = "raised"]
  /\ err' = [err EXCEPT ![w] = e]

Goto(w, label) ==
  /\ spc' = [spc EXCEPT ![w] = label]
  /\ UNCHANGED err

\* where the feature loop goes after the iteration of feature fi[w]
AfterFeature(w) == IF fi[w] < Len(task[w].layer) THEN "mkdir" ELSE "cleanup"

\* lines 43-49: raster = rasterio.open(input_raster_path)
OpenRaster(w) ==
  /\ spc[w] = "open"
  /\ IF task[w].raster_state = "missing"
       THEN Raise(w, "open") /\ UNCHANGED open_rasters
       ELSE Goto(w, "read") /\ open_rasters' = [open_rasters EXCEPT ![w] = @ \cup {"input"}]
  /\ UNCHANGED <<task, fi, breakdowns, folder_bound, returned, seen, files,
                 shared_counter, counter_start, lock, files_start>>
  /\ UNCHANGED <<mainVars, rclVars>>

\* lines 52-64 and 100-113: read band 1, count its pixels, enter
\* process_feature_layer when a feature layer and an id key are given
ReadBand(w) ==
  /\ spc[w] = "read"
  /\ IF task[w].raster_state = "unreadable"
       THEN Raise(w, "read")
       ELSE Goto(w, IF ~task[w].has_layer THEN "summary"
                    ELSE IF Len(task[w].layer) > 0 THEN "mkdir" ELSE "cleanup")
  /\ UNCHANGED <<task, open_rasters, fi, breakdowns, folder_bound, returned, seen, files,
                 shared_counter, counter_start, lock, files_start>>
  /\ UNCHANGED <<mainVars, rclVars>>

\* lines 114-126: bind _output_folder_path and create the folder of the feature
MakeFolder(w) ==
  /\ spc[w] = "mkdir"
  /\ folder_bound' = [folder_bound EXCEPT ![w] = TRUE]
  /\ files' = IF FeatureFolder(task[w], fi[w]) \in files THEN files
              ELSE MakeDirs(files, task[w], fi[w])
  /\ Goto(w, "clip")
  /\ UNCHANGED <<task, open_rasters, fi, breakdowns, returned, seen, shared_counter,
                 counter_start, lock, files_start>>
  /\ UNCHANGED <<mainVars, rclVars>>

\* lines 128-163: clip the raster to the feature, count the pixels of the
\* clipped band, append the record, and write the JSON record and the clipped
\* raster when an output folder is given (the destination raster is opened and
\* closed inside this step)
ClipFeature(w) ==
  /\ spc[w] = "clip"
  /\ LET t == task[w]
         k == fi[w]
     IN IF ClipRaises(t.layer[k])
          THEN /\ Raise(w, "clip")
               /\ UNCHANGED <<breakdowns, files>>
          ELSE /\ breakdowns' =
                    [breakdowns EXCEPT ![w] =
                       Append(@, FeatureMetadata(FeatureId(k), ClipRaster(t.raster, t.layer[k])))]
               /\ IF ~t.output_folder
                    THEN Goto(w, "rmfeature") /\ UNCHANGED files
                    ELSE IF FeatureFolder(t, k) \in files
                           THEN /\ Goto(w, "rmfeature")
                                /\ files' = files \cup {JsonFile(t, k), TiffFile(t, k)}
                           ELSE Raise(w, "write") /\ UNCHANGED files
  /\ UNCHANGED <<task, open_rasters, fi, folder_bound, returned, seen, shared_counter,
                 counter_start, lock, files_start>>
  /\ UNCHANGED <<mainVars, rclVars>>

\* lines 165-172: remove the temp folder of the feature when no output folder is
\* given; bar(); without a lock and a counter the iteration ends here
RemoveFeatureFolder(w) ==
  /\ spc[w] = "rmfeature"
  /\ LET t == task[w]
         k == fi[w]
     IN IF ~t.output_folder /\ FeatureFolder(t, k) \notin files
          THEN /\ Raise(w, "rmtree")
               /\ UNCHANGED <<files, fi>>
          ELSE /\ files' = IF t.output_folder THEN files
                           ELSE RmTree(files, FeatureFolder(t, k))
               /\ IF t.lock
                    THEN Goto(w, "acquire") /\ UNCHANGED fi
                    ELSE /\ Goto(w, AfterFeature(w))
                         /\ fi' = [fi EXCEPT ![w] = @ + 1]
  /\ UNCHANGED <<task, open_rasters, breakdowns, folder_bound, returned, seen,
                 shared_counter, counter_start, lock, files_start>>
  /\ UNCHANGED <<mainVars, rclVars>>

AcquireUnguarded(w) ==
  /\ spc[w] = "acquire"
  /\ lock' = w
  /\ Goto(w, "get")
  /\ UNCHANGED <<task, open_rasters, fi, breakdowns, folder_bound, returned, seen, files,
                 shared_counter, counter_start, files_start>>
  /\ UNCHANGED <<mainVars, rclVars>>

\* line 173: with lock -- enter
Acquire(w) ==
  /\ spc[w] = "acquire"
  /\ lock = 0
  /\ lock' = w
  /\ Goto(w, "get")
  /\ UNCHANGED <<task, open_rasters, fi, breakdowns, folder_bound, returned, seen, files,
                 shared_counter, counter_start, files_start>>
  /\ UNCHANGED <<mainVars, rclVars>>

\* line 173: shared_counter.value += 1 -- the read of the proxy's value
GetCounter(w) ==
  /\ spc[w] = "get"
  /\ seen' = [seen EXCEPT ![w] = shared_counter]
  /\ Goto(w, "set")
  /\ UNCHANGED <<task, open_rasters, fi, breakdowns, folder_bound, returned, files,
                 shared_counter, counter_start, lock, files_start>>
  /\ UNCHANGED <<mainVars, rclVars>>

\* line 173: shared_counter.value += 1 -- the write of the proxy's value
SetCounter(w) ==
  /\ spc[w] = "set"
  /\ shared_counter' = seen[w] + 1
  /\ Goto(w, "release")
  /\ UNCHANGED <<task, open_rasters, fi, breakdowns, folder_bound, returned, seen, files,
                 counter_start, lock, files_start>>
  /\ UNCHANGED <<mainVars, rclVars>>

\* line 173: with lock -- exit; the iteration ends
Release(w) ==
  /\ spc[w] = "release"
  /\ lock' = IF lock = w THEN 0 ELSE lock
  /\ fi' = [fi EXCEPT ![w] = @ + 1]
  /\ Goto(w, AfterFeature(w))
  /\ UNCHANGED <<task, open_rasters, breakdowns, folder_bound, returned, seen, files,
                 shared_counter, counter_start, files_start>>
  /\ UNCHANGED <<mainVars, rclVars>>

\* lines 175-181: remove the main temp folder when no output folder is given,
\* and return the breakdowns; _output_folder_path is unbound when the loop body
\* never ran
Cleanup(w) ==
  /\ spc[w] = "cleanup"
  /\ IF task[w].output_folder
       THEN Goto(w, "summary") /\ UNCHANGED files
       ELSE IF ~folder_bound[w]
              THEN Raise(w, "unbound") /\ UNCHANGED files
              ELSE IF TempFolder \notin files
                     THEN Raise(w, "rmtree") /\ UNCHANGED files
                     ELSE Goto(w, "summary") /\ files' = RmTree(files, TempFolder)
  /\ UNCHANGED <<task, open_rasters, fi, breakdowns, folder_bound, returned, seen,
                 shared_counter, counter_start, lock, files_start>>
  /\ UNCHANGED <<mainVars, rclVars>>

\* lines 66-82: build the summary and save it when a summary path is given
WriteSummary(w) ==
  /\ spc[w] = "summary"
  /\ IF task[w].summary = "unwritable"
       THEN Raise(w, "summary") /\ UNCHANGED returned
       ELSE /\ Goto(w, "close")
            /\ returned' = [returned EXCEPT ![w] =
                 RasterMetadata(task[w].raster,
                                IF task[w].has_layer THEN breakdowns[w] ELSE <<>>)]
  /\ UNCHANGED <<task, open_rasters, fi, breakdowns, folder_bound, seen, files,
                 shared_counter, counter_start, lock, files_start>>
  /\ UNCHANGED <<mainVars, rclVars>>

\* lines 85-87: raster.close(); return feature_metadata
CloseRaster(w) ==
  /\ spc[w] = "close"
  /\ open_rasters' = [open_rasters EXCEPT ![w] = @ \ {"input"}]
  /\ Goto(w, "returned")
  /\ UNCHANGED <<task, fi, breakdowns, folder_bound, returned, seen, files,
                 shared_counter, counter_start, lock, files_start>>
  /\ UNCHANGED <<mainVars, rclVars>>

\* ------------------------------ clip_cropscape_to_area_of_interest.py
\* the raster of the yearly folder at position k
YearRaster(k) == Str(k)

\* lines 21-31: the next yearly raster is opened, or the loop ends (line 71)
ClipOpen(w) ==
  /\ spc[w] = "clip_open"
  /\ IF fi[w] > Len(task[w].years)
       THEN Goto(w, "returned") /\ UNCHANGED open_rasters
       ELSE IF task[w].years[fi[w]] = "open_error"
              THEN Raise(w, "open") /\ UNCHANGED open_rasters
              ELSE /\ Goto(w, "clip_mask")
                   /\ open_rasters' = [open_rasters EXCEPT ![w] = @ \cup {YearRaster(fi[w])}]
  /\ UNCHANGED <<task, fi, breakdowns, folder_bound, returned, seen, files,
                 shared_counter, counter_start, lock, files_start>>
  /\ UNCHANGED <<mainVars, rclVars>>

\* lines 33-59: read the clip shapefile, reproject it, mask the raster
ClipMask(w) ==
  /\ spc[w] = "clip_mask"
  /\ IF task[w].years[fi[w]] = "mask_error"
       THEN Raise(w, "mask")
       ELSE Goto(w, "clip_export")
  /\ UNCHANGED <<task, open_rasters, fi, breakdowns, folder_bound, returned, seen, files,
                 shared_counter, counter_start, lock, files_start>>
  /\ UNCHANGED <<mainVars, rclVars>>

\* lines 61-69: write the clipped raster (the destination is opened and closed
\* by its with block), then raster.close()
ClipExport(w) ==
  /\ spc[w] = "clip_export"
  /\ IF task[w].years[fi[w]] = "export_error"
       THEN /\ Raise(w, "export")
            /\ UNCHANGED <<open_rasters, fi>>
       ELSE /\ Goto(w, "clip_open")
            /\ open_rasters' = [open_rasters EXCEPT ![w] = @ \ {YearRaster(fi[w])}]
            /\ fi' = [fi EXCEPT ![w] = @ + 1]
  /\ UNCHANGED <<task, breakdowns, folder_bound, returned, seen, files,
                 shared_counter, counter_start, lock, files_start>>
  /\ UNCHANGED <<mainVars, rclVars>>

YearFates == {"ok", "open_error", "mask_error", "export_error"}

\* ------------------------------------------------------- the reclassifier
\* no pixel is being reclassified
NoReclass ==
  /\ raw_code = 0
  /\ new_code = 0
  /\ rpc = "none"

\* a pixel takes the new code of an entry whose original list holds its code,
\* the 'missing' code when no entry does
Reclassify ==
  /\ rpc = "pixel"
  /\ IF NewCodesOf(raw_code) = {}
       THEN new_code' = CodeNamed("missing")
       ELSE new_code' \in NewCodesOf(raw_code)
  /\ rpc' = "reclassed"
  /\ UNCHANGED raw_code
  /\ UNCHANGED <<mainVars, sumVars>>

\* ------------------------------------------------------ initial states
\* the workers at the start of their tasks
WorkersStart(tasks, start, present) ==
  /\ task = tasks
  /\ spc = [w \in Workers |-> IF tasks[w].prog = "summarize" THEN "open"
                              ELSE IF tasks[w].prog = "clip" THEN "clip_open" ELSE "none"]
  /\ open_rasters = [w \in Workers |-> {}]
  /\ fi = [w \in Workers |-> 1]
  /\ breakdowns = [w \in Workers |-> <<>>]
  /\ folder_bound = [w \in Workers |-> FALSE]
  /\ err = [w \in Workers |-> "none"]
  /\ returned = [w \in Workers |-> NoMetadata]
  /\ seen = [w \in Workers |-> 0]
  /\ files = present
  /\ files_start = present
  /\ shared_counter = start
  /\ counter_start = start
  /\ lock = 0

NoWorkers == WorkersStart([w \in Workers |-> NoTask], 0, {})

MainIdle == MainStart(<<>>, FALSE, ArgsOf(1, FALSE, FALSE, FALSE))

\* files an earlier pass left in the given output folder
EarlierFiles == {GivenFolder, GivenFolder \o FeatureId(1), GivenFolder \o FeatureId(1) \o <<"earlier">>}

\* one worker runs one call of summarize_raster, or the clipping script
InitSum ==
  /\ MainIdle
  /\ NoReclass
  /\ \E t \in
        {SummarizeTask(r, st, hl, ly, fo, su, lk) :
           r \in Rasters, st \in {"ok", "missing", "unreadable"}, hl \in BOOLEAN,
           ly \in SeqsUpTo(Footprints, MaxFeatures), fo \in BOOLEAN,
           su \in {"none", "ok", "unwritable"}, lk \in BOOLEAN}
        \cup {ClipScriptTask(ys) : ys \in SeqsUpTo(YearFates, MaxYears)} :
       \E present \in {{}, EarlierFiles} :
         WorkersStart([w \in Workers |-> IF w = 1 THEN t ELSE NoTask], 0, present)

WorkerStep(w) ==
  \/ OpenRaster(w)
  \/ ReadBand(w)
  \/ MakeFolder(w)
  \/ ClipFeature(w)
  \/ RemoveFeatureFolder(w)
  \/ Acquire(w)
  \/ GetCounter(w)
  \/ SetCounter(w)
  \/ Release(w)
  \/ Cleanup(w)
  \/ WriteSummary(w)
  \/ CloseRaster(w)

ClipScriptStep(w) ==
  \/ ClipOpen(w)
  \/ ClipMask(w)
  \/ ClipExport(w)

SumNext == \E w \in Workers : WorkerStep(w) \/ ClipScriptStep(w)

\* one worker: a call of summarize_raster, or a run of the clipping script
SpecSum == InitSum /\ [][SumNext]_vars

\* every worker runs summarize_raster over the same feature layer with the same
\* shared counter and lock, all with the scratch folder or all with the given
\* one; the counter has counted three features of earlier passes
InitWorkers ==
  /\ MainIdle
  /\ NoReclass
  /\ \E n \in 0..MaxSharedFeatures, fo \in BOOLEAN, start \in {3} :
       WorkersStart([w \in Workers |->
                       SummarizeTask(CHOOSE r \in Rasters : TRUE, "ok", TRUE,
                                     [k \in 1..n |-> {<<1, 1>>}], fo, "none", TRUE)],
                    start, {})

WorkersNext == \E w \in Workers : WorkerStep(w)

\* concurrent summarization workers
SpecWorkers == InitWorkers /\ [][WorkersNext]_vars

\* the id columns of the orchestrator's runs: every parcel's id is 'a'
MainColumns == SeqsUpTo({<<"a">>}, MaxParcels)

Init ==
  \E col \in MainColumns, size \in 1..MaxChunkSize, rio, proc, mrg \in BOOLEAN :
    /\ MainStart(col, FALSE, ArgsOf(size, rio, proc, mrg))
    /\ NoWorkers
    /\ NoReclass

RunStep ==
  \/ Begin
  \/ ReadFeatureLayer
  \/ ChunkStep
  \/ SaveChunks
  \/ ListLayers
  \/ CountsPass
  \/ TrajectoriesPass
  \/ Reconstruct
  \/ MergeBegin
  \/ MergeStep
  \/ SaveMerged
  \/ Finish

Next ==
  \/ RunStep
  \/ StartRun
  \/ LoseChunkOutput

\* runs of main, re-runs over the files of earlier runs, and lost chunk outputs
Spec == Init /\ [][Next]_vars

RunNext ==
  \/ RunStep
  \/ LoseChunkOutput

\* one run of main on a machine with no working or output files
SpecRun == Init /\ [][RunNext]_vars


OutcomeNext ==
  \/ RunStep
  \/ Interrupt
  \/ RaiseError

\* one run of main that the operator can interrupt and whose statements can
\* raise
SpecOutcome == Init /\ [][OutcomeNext]_vars


\* ------------------------------------------- the sanitization on its own
\* the cells an id column is drawn from: null, plain strings, the string a
\* null becomes under astype(str), and strings of the form the rewrites produce
RawIds ==
  {NullId, <<"a">>, <<"None">>, <<"a", "[[INPUT_FID]]", "2">>,
   <<"NULL", "[[INPUT_FID]]", "2">>}

InitIds ==
  \E col \in SeqsUpTo(RawIds, MaxParcels), keeps \in BOOLEAN, size \in 1..MaxChunkSize :
    /\ MainStart(col, keeps, ArgsOf(size, FALSE, FALSE, FALSE))
    /\ NoWorkers
    /\ NoReclass

IdsNext ==
  \/ Begin
  \/ ReadFeatureLayer
  \/ ChunkStep

\* a run of main up to the end of chunking, over every id column
SpecIds == InitIds /\ [][IdsNext]_vars

\* ------------------------------------------------ the remap on its own
InitReclass ==
  /\ MainIdle
  /\ NoWorkers
  /\ raw_code \in RawCodes
  /\ new_code = 0
  /\ rpc = "pixel"

\* the reclassification of one pixel, over every raw code
SpecReclass == InitReclass /\ [][Reclassify]_vars


\* ------------------------------------------------------------ properties
Ceil(n, d) == (n + d - 1) \div d

ChunkingDone ==
  /\ ~args.skip_processing
  /\ \/ pc = "chunk" /\ ci >= Len(gdf)
     \/ pc \in {"list", "counts", "trajectories", "merge", "mergeloop", "finish",
                "done", "failed"}

\* C1: once the chunking loop has ended there are ceil(n/chunk_size) chunks,
\* chunk i (0-based) holds the parcels at positions [i*chunk_size,
\* (i+1)*chunk_size) in input order, every chunk but the last has chunk_size
\* parcels, and the chunks laid end to end are the parcel list.
C1_ChunkSplitting ==
  ChunkingDone =>
    LET n == Len(gdf)
        size == args.chunk_size
    IN /\ Len(chunks) = Ceil(n, size)
       /\ \A i \in 0..(Len(chunks) - 1) :
            /\ Len(chunks[i + 1]) = Min((i + 1) * size, n) - i * size
            /\ \A k \in 1..Len(chunks[i + 1]) : chunks[i + 1][k] = gdf[i * size + k]
            /\ i < Len(chunks) - 1 => Len(chunks[i + 1]) = size
       /\ Flatten(chunks) = gdf

\* three parcels in chunks of two: a full chunk and a shorter last one
C1_Witness ==
  /\ ChunkingDone
  /\ Len(gdf) = 3
  /\ args.chunk_size = 2
  /\ Len(chunks) = 2
  /\ Len(chunks[2]) = 1

\* C3: after the sanitization no two parcels of the data frame, and so no two
\* parcels of a chunk, share an identifier, whatever the id column held.
C3_IdentifierUniqueness ==
  pc \notin {"start", "read"} /\ ~args.skip_processing =>
    /\ \A j, k \in DOMAIN gdf : j # k => gdf[j].id # gdf[k].id
    /\ \A c \in DOMAIN chunks :
         \A j, k \in DOMAIN chunks[c] : j # k => chunks[c][j].id # chunks[c][k].id
    /\ \A k \in DOMAIN gdf : gdf[k].id # NullId

MergeFinished == pc \in {"finish", "done"} /\ ~args.skip_merge /\ chunk_names.bound

AllChunksValid ==
  \A k \in DOMAIN chunk_names.names :
    LET path == ChunkPath(chunk_names.names[k])
    IN /\ path \in DOMAIN outdir
       /\ outdir[path].counts.st = "ok"
       /\ outdir[path].trajectories.st = "ok"

\* how often row occurs in the named layer of the chunks of chunk_names that have it
CountInChunks(row, layer) ==
  SeqSum([k \in DOMAIN chunk_names.names |->
            LET path == ChunkPath(chunk_names.names[k])
            IN IF path \in DOMAIN outdir /\ outdir[path][layer].st = "ok"
                 THEN Occurrences(outdir[path][layer].rows, row)
                 ELSE 0])

RowsInChunks(layer) ==
  UNION {Range(outdir[path][layer].rows) : path \in DOMAIN outdir}

\* C2: when every chunk of the merge has a valid counts and a valid
\* trajectories layer, each merged table holds every row of every chunk as
\* often as the chunks hold it and nothing else, whatever the order of the
\* chunk names; after a run that chunked the parcels these are the parcels of
\* the feature layer, each once, as one chunk of all parcels would give.
C2_MergeCompleteness ==
  MergeFinished /\ AllChunksValid =>
    \A layer \in {"counts", "trajectories"} :
      LET merged == output_gpkg[layer]
      IN /\ \A row \in Range(merged) \cup RowsInChunks(layer) :
              Occurrences(merged, row) = CountInChunks(row, layer)
         /\ ~args.skip_processing =>
              /\ Len(merged) = Len(gdf)
              /\ \A row \in Range(gdf) : Occurrences(merged, row) = 1

\* three valid chunks merged in an order other than the order of the parcels
C2_Witness ==
  /\ MergeFinished
  /\ AllChunksValid
  /\ Len(chunk_names.names) = 3
  /\ chunk_names.names[1] # LayerChunk(0)
  /\ Len(output_gpkg.counts) = 3
  /\ Len(output_gpkg.trajectories) = 3

\* C4: in a run that skips processing and merges while chunk output files are
\* on disk, the chunk name list the merge uses is bound and names every chunk
\* whose output file is on disk, and the run does not fail.
C4_MergeOnlyChunkNames ==
  args.skip_processing /\ ~args.skip_merge /\ DOMAIN outdir # {} =>
    /\ pc \in {"merge", "mergeloop"} =>
         /\ chunk_names.bound
         /\ \A path \in DOMAIN outdir :
              \E k \in DOMAIN chunk_names.names : ChunkPath(chunk_names.names[k]) = path
    /\ pc # "failed"

Logged(path, layers) ==
  \E m \in Range(log) : m.msg = "Error reading" /\ m.path = path /\ m.layer \in layers

\* C5: after the merge, every chunk whose output file is missing or whose counts
\* or trajectories layer is missing or unreadable has a logged message naming
\* it, the run has not failed, and the rows of every readable layer are in the
\* merged tables.
C5_MergeErrorTolerance ==
  /\ MergeFinished =>
       \A k \in DOMAIN chunk_names.names :
         LET path == ChunkPath(chunk_names.names[k])
         IN /\ path \notin DOMAIN outdir =>
                 Logged(path, {"Parcels with CDL counts",
                               "Parcels with CDL pixel trajectories"})
            /\ path \in DOMAIN outdir =>
                 /\ outdir[path].counts.st # "ok" =>
                      Logged(path, {"Parcels with CDL counts"})
                 /\ outdir[path].trajectories.st # "ok" =>
                      Logged(path, {"Parcels with CDL pixel trajectories"})
                 /\ \A row \in Range(outdir[path].counts.rows) :
                      row \in Range(output_gpkg.counts)
                 /\ \A row \in Range(outdir[path].trajectories.rows) :
                      row \in Range(output_gpkg.trajectories)
  /\ pc = "mergeloop" => exit_code = -1

\* ----------------------------------------- properties of the summarizer
Ended(w) == spc[w] \in {"returned", "raised"}

Summarizes(w) == task[w].prog = "summarize" /\ task[w].has_layer

\* process_feature_layer has returned or raised
LayerPassEnded(w) ==
  \/ spc[w] \in {"summary", "close", "returned"}
  \/ spc[w] = "raised" /\ err[w] \in {"clip", "write", "rmtree", "unbound", "summary"}

\* C6: a pass over a layer with at least one feature, some of them without an
\* intersection with the raster, returns a breakdown with one record per
\* feature in row order, the record of a feature with no intersection having
\* total_pixels 0 and no pixel counts.
C6_FeatureErrorIsolation ==
  \A w \in Workers :
    Summarizes(w) /\ LayerPassEnded(w) /\ Len(task[w].layer) > 0
      /\ err[w] \in {"none", "clip", "summary"} =>
        /\ err[w] # "clip"
        /\ Len(breakdowns[w]) = Len(task[w].layer)
        /\ \A k \in DOMAIN breakdowns[w] :
             /\ breakdowns[w][k].id = FeatureId(k)
             /\ task[w].layer[k] = {} =>
                  /\ breakdowns[w][k].total_pixels = 0
                  /\ DOMAIN breakdowns[w][k].pixel_counts = {}

\* C7: the summary's total_pixels is the sum of its pixel counts and the number
\* of pixels of the raster, and each record's total_pixels is the sum of its
\* pixel counts and the number of pixels inside the feature's polygon.
C7_HistogramConservation ==
  \A w \in Workers :
    /\ spc[w] \in {"close", "returned"} /\ task[w].prog = "summarize" =>
         /\ returned[w].total_pixels =
              SumOver(returned[w].pixel_counts, DOMAIN returned[w].pixel_counts)
         /\ returned[w].total_pixels = Cardinality(Cells)
    /\ \A k \in DOMAIN breakdowns[w] :
         /\ breakdowns[w][k].total_pixels =
              SumOver(breakdowns[w][k].pixel_counts, DOMAIN breakdowns[w][k].pixel_counts)
         /\ breakdowns[w][k].total_pixels = Cardinality(task[w].layer[k])

\* C8: a worker whose call has returned or raised holds no raster open, and no
\* worker ever holds more than one of the rasters it reads open.
C8_RasterHandleLifecycle ==
  \A w \in Workers :
    /\ Ended(w) => open_rasters[w] = {}
    /\ Cardinality(open_rasters[w]) <= 1

\* C9: a pass over a layer whose features all intersect the raster, a layer
\* with no features included, completes; with no output folder nothing is left
\* under the scratch folder, with one every feature has its JSON record and its
\* clipped raster and nothing there was deleted; the breakdown is the same
\* function of the raster and the layer in both modes.
C9_EphemeralOrDurable ==
  \A w \in Workers :
    Summarizes(w) /\ LayerPassEnded(w) /\ (\A k \in DOMAIN task[w].layer : task[w].layer[k] # {}) =>
      /\ spc[w] = "raised" => err[w] = "summary"
      /\ ~task[w].output_folder => \A f \in files : ~IsPrefix(TempFolder, f)
      /\ task[w].output_folder =>
           /\ \A k \in DOMAIN task[w].layer :
                JsonFile(task[w], k) \in files /\ TiffFile(task[w], k) \in files
           /\ files_start \subseteq files
      /\ breakdowns[w] =
           [k \in DOMAIN task[w].layer |->
              FeatureMetadata(FeatureId(k), ClipRaster(task[w].raster, task[w].layer[k]))]

\* the iterations of the feature loop a worker has counted
Counted(w) == (fi[w] - 1) + (IF spc[w] = "release" THEN 1 ELSE 0)

\* C10: the shared counter is its initial value plus the features the workers
\* have counted, at every moment and so when all have finished; it never
\* decreases, and it changes only by one, by the worker that holds the lock.
C10_SharedCounter ==
  /\ [](shared_counter = counter_start + SeqSum([w \in Workers |-> Counted(w)]))
  /\ [][/\ shared_counter' >= shared_counter
        /\ shared_counter' # shared_counter =>
             /\ shared_counter' = shared_counter + 1
             /\ lock \in Workers
             /\ spc[lock] = "set"
             /\ spc'[lock] = "release"]_vars

\* all workers have returned, each having counted at least one feature
C10_Witness ==
  /\ \A w \in Workers : spc[w] = "returned" /\ fi[w] > 1
  /\ shared_counter >= counter_start + NumWorkers

\* -------------------------------------------- properties of the remap table
\* C11: every raw code is in the original list of at most one new code, 0 is
\* not a new code, raw code 0 is in the 'background' entry, 254, and is given
\* that code, and a raw code in no original list is given the 'missing' code,
\* 255.
C11_RemapSpecInvariants ==
  /\ 0 \notin DOMAIN reclass_spec
  /\ NewCodesOf(0) = {254} /\ reclass_spec[254].name = "background"
  /\ reclass_spec[255].name = "missing"
  /\ rpc = "reclassed" =>
       /\ Cardinality(NewCodesOf(raw_code)) <= 1
       /\ new_code \in DOMAIN reclass_spec
       /\ raw_code = 0 => new_code = 254
       /\ NewCodesOf(raw_code) = {} => new_code = 255
       /\ NewCodesOf(raw_code) # {} => new_code \in NewCodesOf(raw_code)

\* ----------------------------------- properties of the raster-prep schedule
ProcessingDone == ~args.skip_processing /\ pc \in {"merge", "mergeloop", "finish", "done"}

\* the positions in calls of the passes of a chunk that ran the raster prep
PrepCalls(c) ==
  {k \in DOMAIN calls :
     calls[k].chunk_name = c /\ ~calls[k].skip_raster_clipping_and_reclassifying}

CountsCalls(c) ==
  {k \in DOMAIN calls : \E skip_prep \in BOOLEAN : calls[k] = CallOf(c, skip_prep, TRUE, FALSE)}

TrajectoriesCalls(c) == {k \in DOMAIN calls : calls[k] = CallOf(c, TRUE, FALSE, TRUE)}

\* C12: after the processing of a run, the raster prep has run exactly once
\* for every chunk, in the chunk's counts-only pass, the chunk's
\* trajectories-only pass came after it and skipped the prep, and no pass
\* that skipped the prep ran before a pass that ran it.
C12_RasterPrepPerChunk ==
  /\ ProcessingDone =>
       \A c \in Range(chunk_names.names) :
         /\ Cardinality(PrepCalls(c)) = 1
         /\ \A k \in PrepCalls(c) : calls[k].skip_trajectories
         /\ \E k \in PrepCalls(c) : \E j \in TrajectoriesCalls(c) : k < j
  /\ \A k \in DOMAIN calls :
       calls[k].skip_raster_clipping_and_reclassifying =>
         \E j \in 1..(k - 1) : ~calls[j].skip_raster_clipping_and_reclassifying

\* C12, as the code schedules it: the raster prep runs exactly once in a run, in the first
\* call, the counts-only pass of the first chunk; every other pass skips it
\* and runs after that call; the counts-only passes all come before the
\* trajectories-only passes, and after the processing every chunk has had
\* one counts-only pass and, after it, one trajectories-only pass.
C12_RasterPrepOncePerRun ==
  /\ \A k \in DOMAIN calls :
       /\ calls[k].skip_raster_clipping_and_reclassifying <=> k > 1
       /\ calls[k].skip_trajectories <=> ~calls[k].skip_summary_data
       /\ \A j \in DOMAIN calls :
            k < j /\ calls[k].skip_summary_data => calls[j].skip_summary_data
  /\ calls # <<>> =>
       /\ ~args.skip_processing
       /\ working.rasters
       /\ calls[1] = CallOf(chunk_names.names[1], FALSE, TRUE, FALSE)
  /\ ProcessingDone =>
       /\ Len(calls) = 2 * Len(chunk_names.names)
       /\ \A c \in Range(chunk_names.names) :
            /\ Cardinality(CountsCalls(c)) = 1
            /\ Cardinality(TrajectoriesCalls(c)) = 1
            /\ \A k \in CountsCalls(c) : \A j \in TrajectoriesCalls(c) : k < j

\* a run over three chunks has made its six calls
C12_Witness ==
  /\ ProcessingDone
  /\ Len(chunk_names.names) = 3
  /\ Len(calls) = 6
  /\ Cardinality({k \in DOMAIN calls : ~calls[k].skip_raster_clipping_and_reclassifying}) = 1

\* ------------------------------------------------- properties of re-runs
\* C13: in every run, a first one or one over the files of an earlier run,
\* each layer of the chunked GeoPackage holds each of its parcels once, and
\* after processing and merging with every chunk output valid each parcel of
\* the feature layer is once in the merged counts table and once in the merged
\* trajectories table, as after a single run.
C13_RerunIdempotence ==
  /\ \A layer \in DOMAIN working.gpkg :
       \A row \in Range(working.gpkg[layer]) : Occurrences(working.gpkg[layer], row) = 1
  /\ MergeFinished /\ ~args.skip_processing /\ AllChunksValid =>
       \A layer \in {"counts", "trajectories"} :
         /\ Len(output_gpkg[layer]) = Len(gdf)
         /\ \A row \in Range(gdf) : Occurrences(output_gpkg[layer], row) = 1

\* ------------------------------------------- properties of a run's outcome
\* the last n lines the run printed
LastLines(n) == IF Len(log) < n THEN <<>> ELSE [k \in 1..n |-> log[Len(log) - n + k].msg]

\* C14: a run an exception has ended has printed the error, the elapsed time
\* and the pointer to the log file, and has a non-zero exit status; a run the
\* operator has interrupted has ended, the elapsed time being the last thing
\* it printed and its exit status 0, and has not printed what the fatal-error
\* path prints.
C14_TopLevelOutcome ==
  /\ pc = "failed" =>
       /\ exit_code > 0
       /\ \E k \in DOMAIN log : log[k].msg = "ERROR"
       /\ LastLines(2) = <<"Total elapsed time", "There was an error. Please check the log file">>
  /\ interrupted =>
       /\ pc = "interrupted"
       /\ exit_code = 0
       /\ LastLines(1) = <<"Total elapsed time">>
       /\ \A k \in DOMAIN log : log[k].msg # "ERROR"

\* --------------------------------------- properties of a merge-only run
\* C15: no step of a run with skip_processing set that finds chunk output
\* files on disk changes them or the working files, whatever the other flags
\* are, so the chunk outputs the merge sees are those on disk when the run
\* started.
C15_MergeOnlyFrame ==
  [][args.skip_processing /\ DOMAIN outdir # {} /\ runs' = runs /\ lost' = lost =>
       /\ outdir' = outdir
       /\ working' = working]_vars

\* ------------------------------ properties of concurrent ephemeral passes
\* C16: of workers that run process_feature_layer concurrently over a layer
\* with features and with no output folder, none loses the folder of the
\* feature it is working on or the scratch folder it still has to remove,
\* none is ended by an exception, and each returns a breakdown with a record
\* for every feature of its layer.
C16_EphemeralIsolation ==
  \A w \in Workers :
    Summarizes(w) /\ ~task[w].output_folder /\ Len(task[w].layer) > 0 =>
      /\ spc[w] \in {"clip", "rmfeature"} => FeatureFolder(task[w], fi[w]) \in files
      /\ spc[w] \in {"clip", "rmfeature", "cleanup"} => TempFolder \in files
      /\ spc[w] # "raised"
      /\ spc[w] = "returned" => Len(returned[w].breakdown) = Len(task[w].layer)

=============================================================================
